---- MODULE Spec2Model ----
(***************************************************************************)
(* A model of so2liu/llm-cache-server: the streaming capture / compaction  *)
(* / replay code (app/utils.py, app/cache.py), the SQLite cache table      *)
(* (app/database.py, app/cache.py) and the request orchestration           *)
(* (app/main.py).                                                          *)
(*                                                                         *)
(* JSON objects are TLA+ records (functions on strings): a key that is     *)
(* absent from the object is absent from the record's DOMAIN.  A key whose *)
(* JSON value is null is modelled as an absent key.  The text json.dumps   *)
(* gives for a list or a dict is a record tagged array or object, which    *)
(* json.loads unwraps.  A JSON string that the code concatenates (delta    *)
(* content) is a sequence of tokens, so that f"{a}{b}" is a \o b.          *)
(***************************************************************************)
EXTENDS Integers, Sequences, FiniteSets, TLC

VARIABLES
    \* ---- merge_chunks / stream_cache_response applied to an input E ----
    chunks,      \* the raw upstream events given to merge_chunks
    merged,      \* the result of merge_chunks(chunks)
    replayed,    \* the frames stream_cache_response has yielded so far
    mpc,         \* where the merge/replay run is
    \* ---- the calls in progress, one per caller r ----
    rq,          \* rq[r]: the call's arguments (route, provider, credential, body)
    pc,          \* pc[r]: where the call stands
    gen,         \* gen[r]: the locals of r's stream_response generator
    upstream,    \* upstream[r]: the events the upstream has still to send to r
    consumed,    \* consumed[r]: the raw events r's generator has read so far
    sent,        \* sent[r]: the frames sent to r's caller so far
    raised,      \* raised[r]: the exception that ended r's call ("None")
    hit,         \* hit[r]: what check_cache returned to r
    returned,    \* returned[r]: what process_chat_request returned to r's route
    finished,    \* finished[r]: the results of r's trial requests, in the order they ended
    req_hash,    \* req_hash[r]: the local request_hash of r's call
    \* ---- shared ----
    cache,       \* the rows of the cache table
    wrote,       \* wrote[r]: the cache_response calls r has completed
    upstream_calls,  \* upstream_calls[r]: the requests r has sent upstream
    token_provider_cache,  \* the token_provider_cache table of the database file
    db_error     \* db_error[r]: what sqlite3 raised inside r's check_cache ("None": nothing)

mergeVars == <<chunks, merged, replayed, mpc>>
callVars == <<rq, pc, gen, upstream, consumed, sent, raised, hit, returned, finished,
              req_hash, db_error>>
sharedVars == <<cache, wrote, upstream_calls, token_provider_cache>>

vars == <<mergeVars, callVars, sharedVars>>

(***************************************************************************)
(* Bounds of the model.                                                    *)
(***************************************************************************)
MaxLen == 3          \* longest upstream event sequence
NumCallers == 2      \* concurrent callers
MaxWrites == 2       \* cache_response calls in SpecStore

Callers == 1..NumCallers

(***************************************************************************)
(* Raw upstream events (openai ChatCompletionChunk.to_dict()).             *)
(***************************************************************************)
Envelopes ==
    { [id |-> "chatcmpl-1", created |-> 1, model |-> "m"],
      [id |-> "chatcmpl-2", created |-> 2, model |-> "m"] }

RawChunk(env, choices) ==
    [id |-> env.id, object |-> "chat.completion.chunk", created |-> env.created,
     model |-> env.model, choices |-> choices]

Usage == [prompt_tokens |-> 1, completion_tokens |-> 1, total_tokens |-> 2]

WithUsage(chunk) ==
    [k \in DOMAIN chunk \cup {"usage"} |-> IF k = "usage" THEN Usage ELSE chunk[k]]

EmptyDelta == [k \in {} |-> ""]

DeltaChoice(delta) == [index |-> 0, delta |-> delta]
FinishChoice == [index |-> 0, delta |-> EmptyDelta, finish_reason |-> "stop"]

\* delta-only events
DeltaEvents ==
    { RawChunk(env, << DeltaChoice([content |-> << c >>]) >>) :
        env \in Envelopes, c \in {"x", "y"} }
\* events with a non-null finish_reason
FinishEvents == { RawChunk(env, << FinishChoice >>) : env \in Envelopes }
\* usage events: with the finish choice, and with an empty choices list
UsageEvents ==
    { WithUsage(RawChunk(env, << FinishChoice >>)) : env \in Envelopes }
    \cup { WithUsage(RawChunk(env, << >>)) : env \in Envelopes }

WellFormedEvents == DeltaEvents \cup FinishEvents \cup UsageEvents

SeqsUpTo(S, n) == UNION { [1..k -> S] : k \in 0..n }

\* chunk.usage is truthy / choice.finish_reason is truthy
HasUsage(chunk) == "usage" \in DOMAIN chunk
HasFinish(choice) == "finish_reason" \in DOMAIN choice

(***************************************************************************)
(* Results of code that can raise.                                         *)
(***************************************************************************)
Ok(v) == [raised |-> "None", value |-> v]
Raise(e) == [raised |-> e, value |-> << >>]

(***************************************************************************)
(* merge_chunks (app/utils.py).                                            *)
(***************************************************************************)
SetChoice0(chunk, choice) ==
    [chunk EXCEPT !.choices = << choice >> \o Tail(chunk.choices)]

WithField(rec, name, val) ==
    [k \in DOMAIN rec \cup {name} |-> IF k = name THEN val ELSE rec[k]]

DropField(rec, name) == [k \in DOMAIN rec \ {name} |-> rec[k]]

\* first_chunk["choices"][0]["delta_list"] = [first_chunk["choices"][0]["delta"]]
merge_first(chunk) ==
    IF "choices" \notin DOMAIN chunk THEN Raise("KeyError")
    ELSE IF chunk.choices = << >> THEN Raise("IndexError")
    ELSE IF "delta" \notin DOMAIN chunk.choices[1] THEN Raise("KeyError")
    ELSE Ok(<< SetChoice0(chunk,
                 WithField(chunk.choices[1], "delta_list", << chunk.choices[1].delta >>)) >>)

\* one iteration of "for chunk in chunks[1:]"
merge_step(merged_chunks, chunk) ==
    LET last == merged_chunks[Len(merged_chunks)] IN
    IF HasUsage(chunk) THEN Ok(Append(merged_chunks, chunk))
    ELSE IF chunk.choices = << >> THEN Raise("IndexError")
    ELSE IF HasFinish(chunk.choices[1]) THEN Ok(Append(merged_chunks, chunk))
    ELSE IF last.choices = << >> THEN Raise("IndexError")
    ELSE IF "delta_list" \notin DOMAIN last.choices[1] THEN Raise("KeyError")
    ELSE Ok([merged_chunks EXCEPT ![Len(merged_chunks)] =
               SetChoice0(last,
                 [last.choices[1] EXCEPT !.delta_list =
                     Append(@, chunk.choices[1].delta)])])

RECURSIVE merge_loop(_, _)
merge_loop(merged_chunks, rest) ==
    IF rest = << >> THEN Ok(merged_chunks)
    ELSE LET r == merge_step(merged_chunks, Head(rest)) IN
         IF r.raised # "None" THEN r ELSE merge_loop(r.value, Tail(rest))

merge_chunks(cs) ==
    IF cs = << >> THEN Raise("IndexError")
    ELSE LET f == merge_first(cs[1]) IN
         IF f.raised # "None" THEN f ELSE merge_loop(f.value, Tail(cs))

(***************************************************************************)
(* stream_cache_response (app/cache.py).  A frame "data: <json>\n\n" is    *)
(* Frame(json); the frame "data: [DONE]\n\n" is DONE.  The generator's     *)
(* whole output is [frames, raised]: the frames it yields, in order, and   *)
(* the exception that ends it ("None" when it returns normally).           *)
(***************************************************************************)
Frame(json) == [data |-> json]
DONE == [done |-> "[DONE]"]

\* new_chunk = deepcopy(first_chunk); del ...["delta_list"]; ...["delta"] = delta
replay_delta(first_chunk, delta) ==
    SetChoice0(first_chunk,
        WithField(DropField(first_chunk.choices[1], "delta_list"), "delta", delta))

\* the frames of one stored chunk: the try / except KeyError body
replay_chunk(first_chunk, chunk) ==
    IF "choices" \notin DOMAIN chunk THEN [frames |-> << Frame(chunk) >>, raised |-> "None"]
    ELSE IF chunk.choices = << >> THEN [frames |-> << >>, raised |-> "IndexError"]
    ELSE IF "delta_list" \notin DOMAIN chunk.choices[1]
         THEN [frames |-> << Frame(chunk) >>, raised |-> "None"]
    ELSE IF chunk.choices[1].delta_list = << >> THEN [frames |-> << >>, raised |-> "None"]
    ELSE IF "choices" \notin DOMAIN first_chunk
         THEN [frames |-> << Frame(chunk) >>, raised |-> "None"]
    ELSE IF first_chunk.choices = << >> THEN [frames |-> << >>, raised |-> "IndexError"]
    ELSE IF "delta_list" \notin DOMAIN first_chunk.choices[1]
         THEN [frames |-> << Frame(chunk) >>, raised |-> "None"]
    ELSE [frames |-> [i \in 1..Len(chunk.choices[1].delta_list) |->
                        Frame(replay_delta(first_chunk, chunk.choices[1].delta_list[i]))],
          raised |-> "None"]

RECURSIVE replay_loop(_, _)
replay_loop(first_chunk, rest) ==
    IF rest = << >> THEN [frames |-> << DONE >>, raised |-> "None"]
    ELSE LET r == replay_chunk(first_chunk, Head(rest)) IN
         IF r.raised # "None" THEN r
         ELSE LET t == replay_loop(first_chunk, Tail(rest)) IN
              [frames |-> r.frames \o t.frames, raised |-> t.raised]

stream_cache_response(cached_chunks) ==
    IF cached_chunks = << >> THEN [frames |-> << >>, raised |-> "IndexError"]
    ELSE replay_loop(cached_chunks[1], cached_chunks)

(***************************************************************************)
(* StreamChunk (app/utils.py): the pydantic model every upstream event is  *)
(* parsed with.  Unknown keys are ignored, a missing required key fails    *)
(* the validation; to_dict() dumps the model's fields without the None     *)
(* ones, so the parsed chunk is the raw event restricted to the model's    *)
(* fields.                                                                 *)
(***************************************************************************)
Restrict(rec, keys) == [k \in DOMAIN rec \cap keys |-> rec[k]]

ChunkDeltaFields == {"role", "reasoning_content", "content", "tool_calls"}
ChunkChoiceFields == {"index", "delta", "finish_reason"}
StreamChunkFields == {"id", "created", "model", "choices"}

ChunkChoice_valid(choice) == {"index", "delta"} \subseteq DOMAIN choice

StreamChunk_valid(data) ==
    /\ StreamChunkFields \subseteq DOMAIN data
    /\ \A i \in 1..Len(data.choices) : ChunkChoice_valid(data.choices[i])

ChunkChoice_parse(choice) ==
    [k \in DOMAIN choice \cap ChunkChoiceFields |->
        IF k = "delta" THEN Restrict(choice.delta, ChunkDeltaFields) ELSE choice[k]]

\* StreamChunk.from_dict(data), then to_dict()
StreamChunk_from_dict(data) ==
    [k \in StreamChunkFields |->
        IF k = "choices"
        THEN [i \in 1..Len(data.choices) |-> ChunkChoice_parse(data.choices[i])]
        ELSE data[k]]

\* ChunkDelta.has_reasoning
has_reasoning(delta) ==
    "reasoning_content" \in DOMAIN delta /\ delta.reasoning_content # << >>

\* any(choice.delta.has_reasoning() for choice in chunk.choices)
any_has_reasoning(chunk) ==
    \E i \in 1..Len(chunk.choices) : has_reasoning(chunk.choices[i].delta)

\* ChunkDelta.transform_reasoning_to_content
transform_reasoning_to_content(delta, add_opening_tag, add_closing_tag) ==
    IF ~has_reasoning(delta) THEN delta
    ELSE LET opened == IF add_opening_tag THEN << "<think>" >> \o delta.reasoning_content
                       ELSE delta.reasoning_content
             reasoning == IF add_closing_tag THEN opened \o << "</think>" >> ELSE opened
             content == IF "content" \in DOMAIN delta THEN delta.content ELSE << >>
         IN WithField(DropField(delta, "reasoning_content"), "content", reasoning \o content)

\* The loop "for choice in prev_chunk.choices" of the async-for body: the choices
\* transformed so far and the reasoning_started flag after them.
RECURSIVE transform_prev_choices(_, _, _)
transform_prev_choices(choices, reasoning_started, current_has_reasoning) ==
    IF choices = << >> THEN [choices |-> << >>, reasoning_started |-> reasoning_started]
    ELSE LET choice == Head(choices)
             add_opening == ~reasoning_started
             add_closing == ~current_has_reasoning
             started == IF ~has_reasoning(choice.delta) THEN reasoning_started
                        ELSE IF add_closing THEN FALSE
                        ELSE IF add_opening THEN TRUE
                        ELSE reasoning_started
             done == IF has_reasoning(choice.delta)
                     THEN [choice EXCEPT !.delta =
                             transform_reasoning_to_content(@, add_opening, add_closing)]
                     ELSE choice
             rest == transform_prev_choices(Tail(choices), started, current_has_reasoning)
         IN [choices |-> << done >> \o rest.choices,
             reasoning_started |-> rest.reasoning_started]

\* The last chunk, after the loop: opening tag if not started, always the closing tag.
transform_last_choices(choices, reasoning_started) ==
    [i \in 1..Len(choices) |->
        IF has_reasoning(choices[i].delta)
        THEN [choices[i] EXCEPT !.delta =
                transform_reasoning_to_content(@, ~reasoning_started, TRUE)]
        ELSE choices[i]]

(***************************************************************************)
(* stream_response (app/utils.py): the generator's locals are the record   *)
(* g; None is << >> and a value v is << v >> for prev_chunk, raw_chunk and *)
(* chunk.  The simulate flag only adds asyncio.sleep(0.05) between frames  *)
(* and is left out.                                                        *)
(***************************************************************************)
Glm46 == "glm-4.6"

stream_response_locals(model) ==
    [is_glm46 |-> (model = Glm46), response_chunks |-> << >>,
     reasoning_started |-> FALSE, prev_chunk |-> << >>,
     raw_chunk |-> << >>, chunk |-> << >>]

\* "prev_chunk = chunk" (glm-4.6 only) and "if use_cache: response_chunks.append(raw_chunk)":
\* the end of the loop body.
loop_body_end(g, use_cache) ==
    [g EXCEPT !.prev_chunk = IF g.is_glm46 THEN g.chunk ELSE @,
              !.response_chunks = IF use_cache THEN @ \o g.raw_chunk ELSE @]

\* The loop body from the parse of raw_chunk to its first suspension: what it raises,
\* the frames it yields, the locals and where the generator stands after it.
loop_body(g, raw_chunk, use_cache) ==
    IF ~StreamChunk_valid(raw_chunk)
    THEN [raised |-> "ValidationError", frames |-> << >>, pc |-> "gen_raised",
          g |-> [g EXCEPT !.raw_chunk = << raw_chunk >>]]
    ELSE LET chunk == StreamChunk_from_dict(raw_chunk)
             g1 == [g EXCEPT !.raw_chunk = << raw_chunk >>, !.chunk = << chunk >>]
         IN
         IF ~g.is_glm46
         THEN [raised |-> "None", frames |-> << Frame(chunk) >>, pc |-> "yielded", g |-> g1]
         ELSE IF g.prev_chunk = << >>
         THEN [raised |-> "None", frames |-> << >>, pc |-> "fetch",
               g |-> loop_body_end(g1, use_cache)]
         ELSE LET prev == g.prev_chunk[1]
                  t == IF any_has_reasoning(prev)
                       THEN transform_prev_choices(prev.choices, g.reasoning_started,
                                                   any_has_reasoning(chunk))
                       ELSE [choices |-> prev.choices,
                             reasoning_started |-> g.reasoning_started]
                  prev2 == [prev EXCEPT !.choices = t.choices]
              IN [raised |-> "None", frames |-> << Frame(prev2) >>, pc |-> "yielded",
                  g |-> [g1 EXCEPT !.prev_chunk = << prev2 >>,
                                   !.reasoning_started = t.reasoning_started]]

\* (fault variant) the generator ends without the [DONE] frame
after_loop_without_done(g) ==
    IF g.is_glm46 /\ g.prev_chunk # << >>
    THEN [frames |-> << Frame(g.prev_chunk[1]) >>, pc |-> "last_yielded", g |-> g]
    ELSE [frames |-> << >>, pc |-> "done_yielded", g |-> g]

\* After the loop: the frames up to the next suspension (the buffered glm-4.6 chunk,
\* or the [DONE] frame).
after_loop(g) ==
    IF g.is_glm46 /\ g.prev_chunk # << >>
    THEN LET prev == g.prev_chunk[1]
             prev2 == [prev EXCEPT !.choices =
                         transform_last_choices(prev.choices, g.reasoning_started)]
         IN [frames |-> << Frame(prev2) >>, pc |-> "last_yielded",
             g |-> [g EXCEPT !.prev_chunk = << prev2 >>]]
    ELSE [frames |-> << DONE >>, pc |-> "done_yielded", g |-> g]

(***************************************************************************)
(* The cache table (app/database.py) and its two statements (app/cache.py).*)
(* A row is [hashed_key, key, value, is_stream]; the timestamp column is   *)
(* informational and left out.                                             *)
(***************************************************************************)
\* INSERT OR REPLACE INTO cache ... ; commit: hashed_key is the PRIMARY KEY
\* json.dumps / json.loads of a list and of a dict: the text of a list is not the text of
\* a dict, and loading gives back what was dumped
json_dumps_array(list) == [array |-> list]
json_dumps_object(dict) == [object |-> dict]
json_loads(text) == IF "array" \in DOMAIN text THEN text.array ELSE text.object

\* (fault variant) a plain INSERT into a table without the PRIMARY KEY of init_db
cache_response_without_replace(rows, request_hash, prompt, response, is_stream) ==
    rows \cup { [hashed_key |-> request_hash, key |-> prompt,
                 value |-> response, is_stream |-> is_stream] }

\* INSERT OR REPLACE INTO cache (hashed_key, key, value, is_stream, timestamp), hashed_key
\* being the PRIMARY KEY of the table (app/database.py)
cache_response(rows, request_hash, prompt, response, is_stream) ==
    { row \in rows : row.hashed_key # request_hash }
    \cup { [hashed_key |-> request_hash, key |-> prompt,
            value |-> response, is_stream |-> is_stream] }

\* SELECT value, is_stream FROM cache WHERE hashed_key = ? ; fetchone
select_row(rows, request_hash) == { row \in rows : row.hashed_key = request_hash }

\* ChatCompletionResponse(**data) (app/models.py): six required fields, others ignored
ChatCompletionResponseFields == {"id", "object", "created", "model", "choices", "usage"}

ChatCompletionResponse(data) ==
    IF ChatCompletionResponseFields \subseteq DOMAIN data
    THEN [kind |-> "ChatCompletionResponse",
          value |-> Restrict(data, ChatCompletionResponseFields)]
    ELSE [kind |-> "ValidationError", value |-> << >>]

\* check_cache(request_hash): None on a miss, a StreamingResponse over
\* stream_cache_response(json.loads(value)) or a ChatCompletionResponse on a hit
check_cache(rows, request_hash) ==
    LET result == select_row(rows, request_hash) IN
    IF result = {} THEN [kind |-> "None", value |-> << >>]
    ELSE LET row == CHOOSE row \in result : TRUE IN
         IF row.is_stream THEN [kind |-> "StreamingResponse", value |-> json_loads(row.value)]
         ELSE ChatCompletionResponse(json_loads(row.value))

NoHit == [kind |-> "NotCalled", value |-> << >>]

\* what sqlite3.connect / cursor.execute can raise inside check_cache: the file cannot be
\* opened, the database is locked, the table is missing
DatabaseErrors == {"OperationalError"}

\* (fault variant) a failed read answered as a miss
check_cache_none_on_error(error, rows, request_hash) ==
    IF error # "None" THEN [kind |-> "None", value |-> << >>]
    ELSE check_cache(rows, request_hash)

\* check_cache(request_hash) on a database whose connect / execute raises `error` ("None":
\* nothing is raised).  The function has no try: what sqlite3 raises leaves it.
check_cache_on(error, rows, request_hash) ==
    IF error # "None" THEN [kind |-> error, value |-> << >>]
    ELSE check_cache(rows, request_hash)

(***************************************************************************)
(* Requests.                                                               *)
(***************************************************************************)
Body(model, stream) == [model |-> model, messages |-> << "hi" >>, stream |-> stream]

\* ChatCompletionRequest(**body) (app/models.py): the model's fields only, the
\* defaults filled in, the None fields left out (model_dump(exclude_none=True))
ChatCompletionRequestFields ==
    {"model", "messages", "temperature", "stream", "tool_choice", "tools", "max_tokens",
     "top_p", "n", "stop", "presence_penalty", "frequency_penalty", "logit_bias", "user"}

ChatCompletionRequest(body) ==
    [k \in (DOMAIN body \cap ChatCompletionRequestFields)
           \cup {"temperature", "stream", "top_p", "n",
                 "presence_penalty", "frequency_penalty"} |->
        IF k \in DOMAIN body THEN body[k]
        ELSE IF k = "stream" THEN FALSE
        ELSE IF k \in {"top_p", "n"} THEN 1 ELSE 0]

\* JSON values as Python holds them after request.json(): a dict keeps its items in the
\* order received, so it is a sequence of items with distinct keys.
JStr(s) == [str |-> s]
JNum(n) == [num |-> n]
JBool(b) == [bool |-> b]
JList(list) == [list |-> list]
JDict(items) == [dict |-> items]
Item(k, v) == [k |-> k, v |-> v]

\* the keys of the modelled bodies in the order sorted() puts them
KeyOrder ==
    << "extra_body", "max_tokens", "messages", "model", "stream", "thinking", "type" >>

\* sorted(items) by key: the keys of a dict are distinct
SortItems(items) ==
    LET keys == { items[m].k : m \in 1..Len(items) }
        sorted == SelectSeq(KeyOrder, LAMBDA k : k \in keys)
    IN [i \in 1..Len(sorted) |->
           items[CHOOSE m \in 1..Len(items) : items[m].k = sorted[i]]]

\* json.dumps(value, sort_keys=...): the text, in which the items of every dict come in
\* sorted order when sort_keys is set and in the dict's own order otherwise
RECURSIVE json_dumps(_, _)
json_dumps(value, sort_keys) ==
    IF "dict" \in DOMAIN value
    THEN LET items == [i \in 1..Len(value.dict) |->
                         Item(value.dict[i].k, json_dumps(value.dict[i].v, sort_keys))]
         IN JDict(IF sort_keys THEN SortItems(items) ELSE items)
    ELSE IF "list" \in DOMAIN value
    THEN JList([i \in 1..Len(value.list) |-> json_dumps(value.list[i], sort_keys)])
    ELSE value

\* (fault variant) a digest that leaves the stream field of the body out
get_request_hash_without_stream(body) ==
    [sha256 |-> json_dumps(JDict(SelectSeq(body.dict, LAMBDA item : item.k # "stream")),
                           TRUE)]

\* (fault variant) the digest of json.dumps(body) without sort_keys
get_request_hash_unsorted(body) == [sha256 |-> json_dumps(body, FALSE)]

\* get_request_hash: sha256 of json.dumps(body, sort_keys=True); the digest is injective
\* on the texts
get_request_hash(body) == [sha256 |-> json_dumps(body, TRUE)]

\* request_hash = "" (main.py:91)
EmptyHash == [text |-> ""]

\* body = await request.json(), for the bodies of the callers: the dict of the record
\* `body`, its items in an order of arrival (here the reverse of the sorted one)
request_json_value(k, v) ==
    CASE k \in {"model"} -> JStr(v)
      [] k = "stream" -> JBool(v)
      [] k = "max_tokens" -> JNum(v)
      [] k = "messages" -> JList([i \in 1..Len(v) |-> JStr(v[i])])
      [] k = "extra_body" ->
            JDict(IF "thinking" \in DOMAIN v
                  THEN << Item("thinking", JDict(<< Item("type", JStr(v.thinking.type)) >>)) >>
                  ELSE << >>)

request_json(body) ==
    LET sorted == SelectSeq(KeyOrder, LAMBDA k : k \in DOMAIN body)
        nth(n) == sorted[Len(sorted) + 1 - n]
    IN JDict([n \in 1..Len(sorted) |->
                 Item(nth(n), request_json_value(nth(n), body[nth(n)]))])


Models == {Glm46, "gpt-3.5-turbo"}

(***************************************************************************)
(* The upstream events of a live stream: a delta, a glm-4.6 reasoning      *)
(* delta, a finish event, a usage event with an empty choices list, and an *)
(* event that is not a chunk (it has no "created").                        *)
(***************************************************************************)
Envelope1 == [id |-> "chatcmpl-1", created |-> 1, model |-> "m"]
ContentEvent == RawChunk(Envelope1, << DeltaChoice([content |-> << "x" >>]) >>)
ReasoningEvent == RawChunk(Envelope1, << DeltaChoice([reasoning_content |-> << "r" >>]) >>)
FinishEvent == RawChunk(Envelope1, << FinishChoice >>)
UsageEvent == WithUsage(RawChunk(Envelope1, << >>))
UnrecognizedEvent == DropField(ContentEvent, "created")

StreamEvents == {ContentEvent, ReasoningEvent, FinishEvent, UsageEvent, UnrecognizedEvent}

(***************************************************************************)
(* stream_response, step by step.  The generator runs from one suspension  *)
(* (an await on the upstream, a yield to the caller) to the next.          *)
(***************************************************************************)
\* response = await client.chat.completions.create(**body, stream=True)
StreamCreate(r) ==
    /\ pc[r] = "create"
    /\ upstream_calls' = [upstream_calls EXCEPT ![r].completions = @ + 1]
    /\ \E ok \in BOOLEAN :
          IF ok THEN pc' = [pc EXCEPT ![r] = "fetch"] /\ raised' = raised
          ELSE pc' = [pc EXCEPT ![r] = "gen_raised"]
               /\ raised' = [raised EXCEPT ![r] = "UpstreamCreateError"]
    /\ UNCHANGED <<mergeVars, db_error, finished, req_hash, rq, gen, upstream, consumed, sent, hit,
                   returned, cache, wrote,
                   token_provider_cache>>

\* "async for raw_chunk in response": the next event arrives
StreamFetch(r) ==
    /\ pc[r] = "fetch"
    /\ upstream[r] # << >>
    /\ consumed' = [consumed EXCEPT ![r] = Append(@, Head(upstream[r]))]
    /\ upstream' = [upstream EXCEPT ![r] = Tail(@)]
    /\ pc' = [pc EXCEPT ![r] = "process"]
    /\ UNCHANGED <<mergeVars, db_error, finished, req_hash, rq, gen, sent, raised, hit, returned,
                   sharedVars>>

\* "async for raw_chunk in response": the upstream ends the stream
StreamEnd(r) ==
    /\ pc[r] = "fetch"
    /\ upstream[r] = << >>
    /\ pc' = [pc EXCEPT ![r] = "afterloop"]
    /\ UNCHANGED <<mergeVars, db_error, finished, req_hash, rq, gen, upstream, consumed, sent,
                   raised,
                   hit, returned,
                   sharedVars>>

\* "async for raw_chunk in response": the upstream fails (the read raises)
StreamFail(r) ==
    /\ pc[r] = "fetch"
    /\ pc' = [pc EXCEPT ![r] = "gen_raised"]
    /\ raised' = [raised EXCEPT ![r] = "UpstreamStreamError"]
    /\ UNCHANGED <<mergeVars, db_error, finished, req_hash, rq, gen, upstream, consumed, sent, hit,
                   returned, sharedVars>>

\* the loop body on the event just read, up to its yield (or, with nothing to yield,
\* to the next read)
StreamProcess(r) ==
    /\ pc[r] = "process"
    /\ LET raw_chunk == consumed[r][Len(consumed[r])]
           b == loop_body(gen[r], raw_chunk, rq[r].use_cache)
       IN /\ gen' = [gen EXCEPT ![r] = b.g]
          /\ sent' = [sent EXCEPT ![r] = @ \o b.frames]
          /\ pc' = [pc EXCEPT ![r] = b.pc]
          /\ raised' = [raised EXCEPT ![r] = b.raised]
    /\ UNCHANGED <<mergeVars, db_error, finished, req_hash, rq, upstream, consumed, hit, returned,
                   sharedVars>>

\* the caller takes the next frame: the generator resumes after the yield of the loop
\* body
StreamResume(r) ==
    /\ pc[r] = "yielded"
    /\ gen' = [gen EXCEPT ![r] = loop_body_end(@, rq[r].use_cache)]
    /\ pc' = [pc EXCEPT ![r] = "fetch"]
    /\ UNCHANGED <<mergeVars, db_error, finished, req_hash, rq, upstream, consumed, sent,
                   raised, hit,
                   returned, sharedVars>>

\* after the loop: the buffered glm-4.6 chunk, or the [DONE] frame
StreamAfterLoop(r) ==
    /\ pc[r] = "afterloop"
    /\ LET a == after_loop(gen[r])
       IN /\ gen' = [gen EXCEPT ![r] = a.g]
          /\ sent' = [sent EXCEPT ![r] = @ \o a.frames]
          /\ pc' = [pc EXCEPT ![r] = a.pc]
    /\ UNCHANGED <<mergeVars, db_error, finished, req_hash, rq, upstream, consumed, raised, hit,
                   returned, sharedVars>>

\* the generator resumes after the yield of the buffered chunk: yield "data: [DONE]"
StreamDone(r) ==
    /\ pc[r] = "last_yielded"
    /\ sent' = [sent EXCEPT ![r] = Append(@, DONE)]
    /\ pc' = [pc EXCEPT ![r] = "done_yielded"]
    /\ UNCHANGED <<mergeVars, db_error, finished, req_hash, rq, gen, upstream, consumed,
                   raised, hit,
                   returned, sharedVars>>

\* "if use_cache and request_hash is not None: cache_response(... merge_chunks ...)",
\* run when the generator resumes from the suspension `after`.  request_hash is a str
\* in every call ("" when use_cache is false), never None.
PersistAfter(r, after) ==
    /\ pc[r] = after
    /\ LET m == merge_chunks(gen[r].response_chunks) IN
       IF ~rq[r].use_cache
       THEN /\ pc' = [pc EXCEPT ![r] = "finished"]
            /\ UNCHANGED <<raised, cache, wrote>>
       ELSE IF m.raised # "None"
       THEN /\ pc' = [pc EXCEPT ![r] = "gen_raised"]
            /\ raised' = [raised EXCEPT ![r] = m.raised]
            /\ UNCHANGED <<cache, wrote>>
       ELSE /\ cache' = cache_response(cache, get_request_hash(request_json(rq[r].body)),
                                       ChatCompletionRequest(rq[r].body),
                                       json_dumps_array(m.value), TRUE)
            /\ wrote' = [wrote EXCEPT ![r] = @ + 1]
            /\ pc' = [pc EXCEPT ![r] = "finished"]
            /\ raised' = raised
    /\ UNCHANGED <<mergeVars, db_error, finished, req_hash, rq, gen, upstream, consumed, sent, hit,
                   returned, upstream_calls,
                   token_provider_cache>>

\* (fault variant) the cache write placed before the yield of [DONE]
StreamPersistBeforeDone(r) == PersistAfter(r, "afterloop")

\* the generator resumes after the yield of [DONE] and writes the cache entry
StreamPersist(r) == PersistAfter(r, "done_yielded")

\* (fault variant) the cache write in a finally block: it runs when the generator is closed
ClientDisconnectWithFinally(r) ==
    /\ pc[r] \in {"fetch", "yielded", "last_yielded", "done_yielded"}
    /\ pc' = [pc EXCEPT ![r] = "closed"]
    /\ LET m == merge_chunks(gen[r].response_chunks) IN
       IF rq[r].use_cache /\ m.raised = "None"
       THEN /\ cache' = cache_response(cache, get_request_hash(request_json(rq[r].body)),
                                       ChatCompletionRequest(rq[r].body),
                                       json_dumps_array(m.value), TRUE)
            /\ wrote' = [wrote EXCEPT ![r] = @ + 1]
       ELSE UNCHANGED <<cache, wrote>>
    /\ UNCHANGED <<mergeVars, db_error, finished, req_hash, rq, gen, upstream, consumed, sent,
                   raised, hit, returned, upstream_calls, token_provider_cache>>

\* the caller goes away while the generator is suspended: it is never resumed
ClientDisconnect(r) ==
    /\ pc[r] \in {"fetch", "yielded", "last_yielded", "done_yielded"}
    /\ pc' = [pc EXCEPT ![r] = "closed"]
    /\ UNCHANGED <<mergeVars, db_error, finished, req_hash, rq, gen, upstream, consumed, sent,
                   raised,
                   hit, returned,
                   sharedVars>>

(***************************************************************************)
(* A cache hit served by check_cache(request_hash) and consumed by the     *)
(* caller frame by frame.                                                  *)
(***************************************************************************)
CheckCache(r) ==
    /\ pc[r] = "check_cache"
    /\ \E error \in DatabaseErrors \cup {"None"} :
       LET h == check_cache_on(error, cache, get_request_hash(request_json(rq[r].body))) IN
       /\ db_error' = [db_error EXCEPT ![r] = error]
       /\ hit' = [hit EXCEPT ![r] = h]
       /\ pc' = [pc EXCEPT ![r] =
                   CASE h.kind = "None" -> "miss"
                     [] h.kind = "StreamingResponse" -> "replaying"
                     [] h.kind = "ChatCompletionResponse" -> "returned"
                     [] OTHER -> "failed"]
       /\ raised' = [raised EXCEPT ![r] =
                       IF h.kind \in DatabaseErrors \cup {"ValidationError"} THEN h.kind
                       ELSE @]
    /\ UNCHANGED <<mergeVars, finished, req_hash, rq, gen, upstream, consumed, sent,
                   returned, sharedVars>>

\* the caller takes the next frame of stream_cache_response(cached_chunks)
ReplayNext(r) ==
    /\ pc[r] = "replaying"
    /\ LET out == stream_cache_response(hit[r].value) IN
       IF Len(sent[r]) < Len(out.frames)
       THEN /\ sent' = [sent EXCEPT ![r] = Append(@, out.frames[Len(sent[r]) + 1])]
            /\ pc' = [pc EXCEPT ![r] =
                        IF out.frames[Len(sent[r]) + 1] = DONE THEN "replay_done"
                        ELSE "replaying"]
            /\ raised' = raised
       ELSE /\ sent' = sent
            /\ pc' = [pc EXCEPT ![r] = "replay_raised"]
            /\ raised' = [raised EXCEPT ![r] = out.raised]
    /\ UNCHANGED <<mergeVars, db_error, finished, req_hash, rq, gen, upstream, consumed, hit,
                   returned,
                   sharedVars>>

(***************************************************************************)
(* process_chat_request (app/main.py) and what it calls.                   *)
(***************************************************************************)
\* "Special handling for GLM-4.6 model": the defaults filled into the body
glm46_defaults(body) ==
    IF body.model # Glm46 THEN body
    ELSE [k \in DOMAIN body \cup {"max_tokens", "stream", "extra_body"} |->
            IF k \in DOMAIN body /\ k # "extra_body" THEN body[k]
            ELSE IF k = "max_tokens" THEN 100000
            ELSE IF k = "stream" THEN FALSE
            ELSE IF "extra_body" \in DOMAIN body /\ "thinking" \in DOMAIN body.extra_body
                 THEN body.extra_body
                 ELSE WithField(IF "extra_body" \in DOMAIN body THEN body.extra_body
                                ELSE [x \in {} |-> 0],
                                "thinking", [type |-> "disabled"])]

\* transform_glm46_non_streaming_response: reasoning_content popped from each message and,
\* when not empty, prepended to the content between <think> tags
transform_glm46_message(message) ==
    IF "reasoning_content" \notin DOMAIN message THEN message
    ELSE IF message.reasoning_content = << >> THEN DropField(message, "reasoning_content")
    ELSE WithField(DropField(message, "reasoning_content"), "content",
                   << "<think>" >> \o message.reasoning_content \o << "</think>" >>
                   \o (IF "content" \in DOMAIN message THEN message.content ELSE << >>))

transform_glm46_non_streaming_response(response_dict) ==
    IF "choices" \notin DOMAIN response_dict THEN response_dict
    ELSE [response_dict EXCEPT !.choices =
            [i \in 1..Len(@) |->
                IF "message" \in DOMAIN @[i]
                THEN [@[i] EXCEPT !.message = transform_glm46_message(@)]
                ELSE @[i]]]

\* the database file holds no token_provider_cache table / holds it with these rows
NoTable == [exists |-> FALSE, rows |-> {}]
Table(rows) == [exists |-> TRUE, rows |-> rows]

\* a string stored as it is, as a TEXT column holds it
Text(string) == [text |-> string]

\* (fault variant) the credential stored as it is
hash_api_key_identity(api_key) == Text(api_key)

\* hash_api_key: sha256 of the key, injective on the keys
hash_api_key(api_key) == [sha256 |-> api_key]

\* get_cached_provider: SELECT base_url FROM token_provider_cache WHERE token_hash = ?
get_cached_provider(table, api_key) ==
    IF ~table.exists THEN Raise("OperationalError")
    ELSE LET found == { row \in table.rows : row.token_hash = hash_api_key(api_key) } IN
         IF found = {} THEN Ok(<< >>) ELSE Ok(<< (CHOOSE row \in found : TRUE).base_url >>)

\* (fault variant) a cache_provider that stores nothing
cache_provider_nothing(table, api_key, provider) == table

\* cache_provider: INSERT OR REPLACE INTO token_provider_cache (token_hash, base_url, ...)
cache_provider(table, api_key, provider) ==
    Table({ row \in table.rows : row.token_hash # hash_api_key(api_key) }
          \cup { [token_hash |-> hash_api_key(api_key), base_url |-> provider] })

\* BUILTIN_BASE_URLS, and the ADDITIONAL_BASE_URLS of the environment (one extra URL)
BUILTIN_BASE_URLS ==
    << "https://openrouter.ai/api/v1",
       "https://dashscope.aliyuncs.com/compatible-mode/v1",
       "https://api.deepseek.com/v1",
       "https://open.bigmodel.cn/api/paas/v4" >>
AdditionalBaseUrls == << "https://api.custom.com/v1" >>

\* get_all_base_urls: additional URLs first, then the built-in ones
get_all_base_urls == AdditionalBaseUrls \o BUILTIN_BASE_URLS

\* The credentials of the callers, and the endpoints that accept each (the outcome of
\* test_base_url's trial request).
ApiKeys == {"sk-good", "sk-bad"}
Accepts(api_key, base_url) ==
    /\ api_key = "sk-good"
    /\ base_url \in {"https://api.deepseek.com/v1", "https://open.bigmodel.cn/api/paas/v4"}

\* test_base_url: the result tuple of one trial request
test_base_url(base_url, api_key) ==
    [base_url |-> base_url, success |-> Accepts(api_key, base_url)]

\* asyncio.gather(*tasks): the results in the order of the tasks, whatever the order
\* `done` in which the tasks ended
gather(all_base_urls, done) ==
    [i \in 1..Len(all_base_urls) |->
        done[CHOOSE j \in 1..Len(done) : done[j].base_url = all_base_urls[i]]]

\* "Find first successful base URL (maintaining priority order)": for base_url in
\* all_base_urls: for result in results: if result_base_url == base_url and success
first_successful(all_base_urls, results) ==
    LET ok == { i \in 1..Len(all_base_urls) :
                  \E j \in 1..Len(results) :
                      results[j].base_url = all_base_urls[i] /\ results[j].success } IN
    IF ok = {} THEN << >>
    ELSE << all_base_urls[CHOOSE i \in ok : \A j \in ok : i <= j] >>

\* (fault variant) the first trial to end with success, as asyncio.as_completed gives it
first_completed(all_base_urls, done) ==
    LET ok == { j \in 1..Len(done) : done[j].success } IN
    IF ok = {} THEN << >>
    ELSE << done[CHOOSE j \in ok : \A k \in ok : j <= k].base_url >>

\* results = await asyncio.gather(...), then the search in priority order
detect_result(all_base_urls, done) ==
    first_successful(all_base_urls, gather(all_base_urls, done))

\* (fault variant) an error message that names the first candidate only
error_msg_first_only(all_base_urls) == [accepted_urls |-> SubSeq(all_base_urls, 1, 1)]

\* error_msg = f"All base URLs failed. Accepted base URLs:\n{accepted_urls}"
error_msg(all_base_urls) == [accepted_urls |-> all_base_urls]

\* the orders in which the elements of S can come
RECURSIVE Orders(_)
Orders(S) ==
    IF S = {} THEN {<< >>}
    ELSE UNION { { << x >> \o rest : rest \in Orders(S \ {x}) } : x \in S }

Range(seq) == { seq[i] : i \in 1..Len(seq) }

\* the trials of a call that have not ended yet, and the orders in which all trials can
\* have ended when gather returns, given those that have ended so far
PendingTrials(done, all_base_urls, api_key) ==
    { test_base_url(all_base_urls[i], api_key) : i \in 1..Len(all_base_urls) } \ Range(done)

\* every order in which the trials of a call with `api_key` can end
TrialOrders ==
    [api_key \in ApiKeys |-> Orders(PendingTrials(<< >>, get_all_base_urls, api_key))]

CompletionOrders(done, api_key) ==
    { order \in TrialOrders[api_key] : SubSeq(order, 1, Len(done)) = done }

\* what detect_provider finds after gather, for each order in which the trials can end
DetectResults ==
    [api_key \in ApiKeys |->
        [done \in TrialOrders[api_key] |-> detect_result(get_all_base_urls, done)]]

\* The parameters check_cache is declared with (app/cache.py:24), and Python's binding of
\* a call's positional arguments to them: no defaults, no *args.
check_cache_parameters == << "request_hash" >>
CallBinds(parameters, args) == Len(args) = Len(parameters)

\* the completion objects an upstream returns to a non-streaming call
CompletionObject ==
    [id |-> "chatcmpl-9", object |-> "chat.completion", created |-> 9, model |-> "m",
     choices |-> << [index |-> 0, finish_reason |-> "stop",
                     message |-> [role |-> "assistant", content |-> << "hello" >>]] >>,
     usage |-> Usage, system_fingerprint |-> "fp"]
ReasoningCompletionObject ==
    [CompletionObject EXCEPT !.choices =
        << [index |-> 0, finish_reason |-> "stop",
            message |-> [role |-> "assistant", content |-> << "hello" >>,
                         reasoning_content |-> << "r" >>]] >>]
UpstreamResponses ==
    {CompletionObject, ReasoningCompletionObject, DropField(CompletionObject, "usage")}

\* the events an upstream sends to a streaming call of process_chat_request
LiveScript == << ContentEvent, FinishEvent >>

Ended == {"returned", "failed", "finished", "gen_raised", "closed",
          "replay_done", "replay_raised"}

\* body = await request.json(); the glm-4.6 defaults; chat_request = ChatCompletionRequest(**body)
ProcessStart(r) ==
    /\ pc[r] = "start"
    /\ rq' = [rq EXCEPT ![r].body = glm46_defaults(@),
                        ![r].after = { q \in Callers : pc[q] \in Ended }]
    /\ gen' = [gen EXCEPT ![r] = stream_response_locals(rq[r].body.model)]
    /\ pc' = [pc EXCEPT ![r] = IF rq[r].provider = << >> THEN "detect" ELSE "lookup"]
    /\ UNCHANGED <<mergeVars, db_error, finished, req_hash, upstream, consumed, sent, raised, hit,
                   returned, sharedVars>>

\* detect_provider up to its await: the cached base URL, or the trial requests sent
DetectProvider(r) ==
    /\ pc[r] = "detect"
    /\ LET cached == get_cached_provider(token_provider_cache, rq[r].api_key) IN
       IF cached.raised # "None"
       THEN /\ pc' = [pc EXCEPT ![r] = "failed"]
            /\ raised' = [raised EXCEPT ![r] = cached.raised]
            /\ UNCHANGED <<rq, upstream_calls>>
       ELSE IF cached.value # << >>
       THEN /\ rq' = [rq EXCEPT ![r].provider = cached.value]
            /\ pc' = [pc EXCEPT ![r] = "lookup"]
            /\ UNCHANGED <<raised, upstream_calls>>
       ELSE /\ upstream_calls' =
                 [upstream_calls EXCEPT ![r].trials = @ + Len(get_all_base_urls)]
            /\ pc' = [pc EXCEPT ![r] = "detect_wait"]
            /\ UNCHANGED <<rq, raised>>
    /\ UNCHANGED <<mergeVars, db_error, finished, req_hash, gen, upstream, consumed, sent, hit,
                   returned, cache, wrote,
                   token_provider_cache>>

\* one trial request of r ends (test_base_url returns its tuple)
TrialFinish(r) ==
    /\ pc[r] = "detect_wait"
    /\ \E res \in PendingTrials(finished[r], get_all_base_urls, rq[r].api_key) :
          finished' = [finished EXCEPT ![r] = Append(@, res)]
    /\ UNCHANGED <<mergeVars, db_error, req_hash, rq, pc, gen, upstream, consumed, sent,
                   raised, hit, returned,
                   sharedVars>>

\* detect_provider after asyncio.gather: the trials still running end in some order, the
\* first accepting URL in priority order is cached and returned, or ValueError is raised
\* (the route answers 400 with the message as detail)
DetectGather(r) ==
    /\ pc[r] = "detect_wait"
    /\ \E found \in { DetectResults[rq[r].api_key][done] :
                        done \in CompletionOrders(finished[r], rq[r].api_key) } :
       IF found = << >>
       THEN /\ pc' = [pc EXCEPT ![r] = "failed"]
            /\ raised' = [raised EXCEPT ![r] = "ValueError"]
            /\ returned' = [returned EXCEPT ![r] =
                              [kind |-> "HTTPException", value |-> error_msg(get_all_base_urls)]]
            /\ UNCHANGED <<rq, token_provider_cache>>
       ELSE /\ token_provider_cache' =
                 cache_provider(token_provider_cache, rq[r].api_key, found[1])
            /\ rq' = [rq EXCEPT ![r].provider = found]
            /\ pc' = [pc EXCEPT ![r] = "lookup"]
            /\ UNCHANGED <<raised, returned>>
    /\ UNCHANGED <<mergeVars, db_error, finished, req_hash, gen, upstream, consumed, sent,
                   hit, cache,
                   wrote,
                   upstream_calls>>

\* "if use_cache: ... cached_response = check_cache(request_hash, simulate)", then the
\* dispatch on chat_request.stream
Lookup(r) ==
    /\ pc[r] = "lookup"
    /\ LET args == << get_request_hash(request_json(rq[r].body)), FALSE >>
           stream == ChatCompletionRequest(rq[r].body).stream
           miss == IF stream THEN "create" ELSE "call"
       IN
       IF ~rq[r].use_cache
       THEN /\ pc' = [pc EXCEPT ![r] = miss]
            /\ UNCHANGED <<raised, hit, returned, db_error>>
       ELSE IF ~CallBinds(check_cache_parameters, args)
       THEN /\ pc' = [pc EXCEPT ![r] = "failed"]
            /\ raised' = [raised EXCEPT ![r] = "TypeError"]
            /\ UNCHANGED <<hit, returned, db_error>>
       ELSE \E error \in DatabaseErrors \cup {"None"} :
            LET cached_response == check_cache_on(error, cache, args[1]) IN
            /\ db_error' = [db_error EXCEPT ![r] = error]
            /\ hit' = [hit EXCEPT ![r] = cached_response]
            /\ pc' = [pc EXCEPT ![r] =
                        CASE cached_response.kind = "None" -> miss
                          [] cached_response.kind = "StreamingResponse" -> "replaying"
                          [] cached_response.kind = "ChatCompletionResponse" -> "returned"
                          [] OTHER -> "failed"]
            /\ raised' = [raised EXCEPT ![r] =
                            IF cached_response.kind \in DatabaseErrors \cup {"ValidationError"}
                            THEN cached_response.kind ELSE @]
            /\ returned' = [returned EXCEPT ![r] =
                              IF cached_response.kind \in
                                   {"StreamingResponse", "ChatCompletionResponse"}
                              THEN cached_response ELSE @]
    /\ req_hash' = [req_hash EXCEPT ![r] =
                          IF rq[r].use_cache THEN get_request_hash(request_json(rq[r].body))
                          ELSE @]
    /\ UNCHANGED <<mergeVars, finished, rq, gen, upstream, consumed, sent, sharedVars>>

\* response = await client.chat.completions.create(**chat_request...): the request is sent
CompletionCall(r) ==
    /\ pc[r] = "call"
    /\ upstream_calls' = [upstream_calls EXCEPT ![r].completions = @ + 1]
    /\ pc' = [pc EXCEPT ![r] = "call_wait"]
    /\ UNCHANGED <<mergeVars, db_error, finished, req_hash, rq, gen, upstream, consumed, sent,
                   raised,
                   hit, returned,
                   cache, wrote, token_provider_cache>>

\* the upstream call raises: the route answers 400
CompletionFail(r) ==
    /\ pc[r] = "call_wait"
    /\ pc' = [pc EXCEPT ![r] = "failed"]
    /\ raised' = [raised EXCEPT ![r] = "UpstreamCreateError"]
    /\ UNCHANGED <<mergeVars, db_error, finished, req_hash, rq, gen, upstream, consumed, sent, hit,
                   returned, sharedVars>>

\* the upstream answers: the glm-4.6 transform, the cache write, the return value
CompletionReturn(r) ==
    /\ pc[r] = "call_wait"
    /\ \E response \in UpstreamResponses :
          LET response_dict == IF rq[r].body.model = Glm46
                               THEN transform_glm46_non_streaming_response(response)
                               ELSE response
              parsed == ChatCompletionResponse(response_dict)
          IN /\ IF rq[r].use_cache
                THEN /\ cache' = cache_response(cache, get_request_hash(request_json(rq[r].body)),
                                                rq[r].body, json_dumps_object(response_dict), FALSE)
                     /\ wrote' = [wrote EXCEPT ![r] = @ + 1]
                ELSE UNCHANGED <<cache, wrote>>
             /\ returned' = [returned EXCEPT ![r] =
                               IF parsed.kind = "ChatCompletionResponse" THEN parsed
                               ELSE [kind |-> "error", value |-> response_dict]]
    /\ pc' = [pc EXCEPT ![r] = "returned"]
    /\ UNCHANGED <<mergeVars, db_error, finished, req_hash, rq, gen, upstream, consumed, sent,
                   raised,
                   hit,
                   upstream_calls, token_provider_cache>>

(***************************************************************************)
(* Initial values.                                                         *)
(***************************************************************************)
NoCalls == [trials |-> 0, completions |-> 0]
NotReturned == [kind |-> "NotReturned", value |-> << >>]
NoRequest == [use_cache |-> FALSE, body |-> Body("gpt-3.5-turbo", FALSE)]

IdleMerge ==
    /\ chunks = << >>
    /\ merged = Raise("NotRun")
    /\ replayed = << >>
    /\ mpc = "idle"

IdleCalls ==
    /\ rq = [r \in Callers |-> NoRequest]
    /\ pc = [r \in Callers |-> "idle"]
    /\ gen = [r \in Callers |-> stream_response_locals(NoRequest.body.model)]
    /\ upstream = [r \in Callers |-> << >>]
    /\ consumed = [r \in Callers |-> << >>]
    /\ sent = [r \in Callers |-> << >>]
    /\ raised = [r \in Callers |-> "None"]
    /\ hit = [r \in Callers |-> NoHit]
    /\ returned = [r \in Callers |-> NotReturned]
    /\ finished = [r \in Callers |-> << >>]
    /\ req_hash = [r \in Callers |-> EmptyHash]
    /\ db_error = [r \in Callers |-> "None"]

IdleShared ==
    /\ cache = {}
    /\ wrote = [r \in Callers |-> 0]
    /\ upstream_calls = [r \in Callers |-> NoCalls]
    /\ token_provider_cache = NoTable

(***************************************************************************)
(* SpecMerge: merge_chunks and stream_cache_response applied to an input   *)
(* sequence.                                                               *)
(***************************************************************************)
InitMerge ==
    /\ chunks \in SeqsUpTo(WellFormedEvents, MaxLen)
    /\ merged = Raise("NotRun")
    /\ replayed = << >>
    /\ mpc = "input"
    /\ IdleCalls
    /\ IdleShared

Merge ==
    /\ mpc = "input"
    /\ merged' = merge_chunks(chunks)
    /\ mpc' = IF merged'.raised = "None" THEN "replaying" ELSE "merge_raised"
    /\ UNCHANGED <<chunks, replayed, callVars, sharedVars>>

\* the consumer takes the next frame of stream_cache_response(merged.value)
MergeReplayNext ==
    /\ mpc = "replaying"
    /\ LET out == stream_cache_response(merged.value) IN
       IF Len(replayed) < Len(out.frames)
       THEN /\ replayed' = Append(replayed, out.frames[Len(replayed) + 1])
            /\ mpc' = IF replayed'[Len(replayed')] = DONE THEN "replay_done" ELSE "replaying"
       ELSE /\ replayed' = replayed
            /\ mpc' = "replay_raised"
    /\ UNCHANGED <<chunks, merged, callVars, sharedVars>>

NextMerge == Merge \/ MergeReplayNext

SpecMerge == InitMerge /\ [][NextMerge]_vars

(***************************************************************************)
(* SpecStream: caller 1 runs stream_response(client, chat_request,         *)
(* use_cache, request_hash) on an upstream event sequence; the other       *)
(* callers call check_cache(request_hash) for the same body, or for the    *)
(* body with another stream field, and consume what it returns.            *)
(***************************************************************************)
\* the bodies that differ from Body(model, TRUE) in the stream field at most: stream true,
\* false and absent
StreamFieldVariants(model) ==
    {Body(model, TRUE), Body(model, FALSE), DropField(Body(model, TRUE), "stream")}

InitStream ==
    /\ IdleMerge
    /\ IdleShared
    /\ \E use_cache \in BOOLEAN, model \in Models : \E body \in StreamFieldVariants(model) :
          /\ rq = [r \in Callers |->
                      [use_cache |-> use_cache,
                       body |-> IF r = 1 THEN Body(model, TRUE) ELSE body]]
          /\ gen = [r \in Callers |-> stream_response_locals(model)]
    /\ pc = [r \in Callers |-> IF r = 1 THEN "create" ELSE "check_cache"]
    /\ \E events \in SeqsUpTo(StreamEvents, MaxLen) :
          upstream = [r \in Callers |-> IF r = 1 THEN events ELSE << >>]
    /\ consumed = [r \in Callers |-> << >>]
    /\ sent = [r \in Callers |-> << >>]
    /\ raised = [r \in Callers |-> "None"]
    /\ hit = [r \in Callers |-> NoHit]
    /\ returned = [r \in Callers |-> NotReturned]
    /\ finished = [r \in Callers |-> << >>]
    /\ req_hash = [r \in Callers |-> EmptyHash]
    /\ db_error = [r \in Callers |-> "None"]

NextStream ==
    \E r \in Callers :
        \/ StreamCreate(r)
        \/ StreamFetch(r)
        \/ StreamEnd(r)
        \/ StreamFail(r)
        \/ StreamProcess(r)
        \/ StreamResume(r)
        \/ StreamAfterLoop(r)
        \/ StreamDone(r)
        \/ StreamPersist(r)
        \/ ClientDisconnect(r)
        \/ CheckCache(r)
        \/ ReplayNext(r)

SpecStream == InitStream /\ [][NextStream]_vars

(***************************************************************************)
(* SpecThink: SpecStream for the model glm-4.6 alone, on upstream events   *)
(* that exercise the look-behind of stream_response: content, reasoning    *)
(* in one choice, reasoning in two choices of one event, and the finish    *)
(* event.                                                                  *)
(***************************************************************************)
\* a glm-4.6 event with two choices, both carrying reasoning_content
TwoChoiceReasoningEvent ==
    RawChunk(Envelope1, << DeltaChoice([reasoning_content |-> << "r" >>]),
                           [index |-> 1, delta |-> [reasoning_content |-> << "s" >>]] >>)

ThinkEvents == {ContentEvent, ReasoningEvent, TwoChoiceReasoningEvent, FinishEvent}

InitThink ==
    /\ IdleMerge
    /\ IdleShared
    /\ \E use_cache \in BOOLEAN :
          rq = [r \in Callers |-> [use_cache |-> use_cache, body |-> Body(Glm46, TRUE)]]
    /\ gen = [r \in Callers |-> stream_response_locals(Glm46)]
    /\ pc = [r \in Callers |-> IF r = 1 THEN "create" ELSE "check_cache"]
    /\ \E events \in SeqsUpTo(ThinkEvents, MaxLen) :
          upstream = [r \in Callers |-> IF r = 1 THEN events ELSE << >>]
    /\ consumed = [r \in Callers |-> << >>]
    /\ sent = [r \in Callers |-> << >>]
    /\ raised = [r \in Callers |-> "None"]
    /\ hit = [r \in Callers |-> NoHit]
    /\ returned = [r \in Callers |-> NotReturned]
    /\ finished = [r \in Callers |-> << >>]
    /\ req_hash = [r \in Callers |-> EmptyHash]
    /\ db_error = [r \in Callers |-> "None"]

SpecThink == InitThink /\ [][NextStream]_vars

(***************************************************************************)
(* SpecStore: the callers call cache_response and check_cache on the cache *)
(* table.  Each call is one synchronous sqlite3 statement run between two  *)
(* awaits of the event loop, so each is one step.                          *)
(***************************************************************************)
\* the key the callers write, and a key the database file already holds an entry for
StoreBodies == {Body("gpt-3.5-turbo", FALSE)}
StoredBody == Body("gpt-3.5-turbo", TRUE)

\* (response, is_stream) pairs as process_chat_request and stream_response write them
StoreEntries ==
    { [response |-> json_dumps_array(merge_chunks(<< ContentEvent, FinishEvent >>).value),
       is_stream |-> TRUE],
      [response |-> json_dumps_object(CompletionObject), is_stream |-> FALSE],
      [response |-> json_dumps_object(DropField(CompletionObject, "usage")),
       is_stream |-> FALSE] }

StoredRow ==
    [hashed_key |-> get_request_hash(request_json(StoredBody)), key |-> StoredBody,
     value |-> json_dumps_array(merge_chunks(<< ContentEvent, FinishEvent >>).value),
     is_stream |-> TRUE]

InitStore ==
    /\ IdleMerge
    /\ IdleCalls
    /\ cache = {StoredRow}
    /\ wrote = [r \in Callers |-> 0]
    /\ upstream_calls = [r \in Callers |-> NoCalls]
    /\ token_provider_cache = NoTable

\* caller c runs cache_response(request_hash, prompt, response, is_stream)
RECURSIVE Total(_, _)
Total(count, S) ==
    IF S = {} THEN 0
    ELSE LET c == CHOOSE c \in S : TRUE IN count[c] + Total(count, S \ {c})

StoreWrite(c) ==
    /\ Total(wrote, Callers) < MaxWrites
    /\ \E body \in StoreBodies, e \in StoreEntries :
          /\ cache' = cache_response(cache, get_request_hash(request_json(body)), body,
                                     e.response, e.is_stream)
          /\ rq' = [rq EXCEPT ![c] = [use_cache |-> TRUE, body |-> body,
                                      response |-> e.response, is_stream |-> e.is_stream]]
    /\ wrote' = [wrote EXCEPT ![c] = @ + 1]
    /\ UNCHANGED <<mergeVars, db_error, finished, req_hash, pc, gen, upstream, consumed, sent,
                   raised,
                   hit, returned,
                   upstream_calls, token_provider_cache>>

\* caller c runs check_cache(request_hash)
StoreRead(c) ==
    /\ \E body \in StoreBodies \cup {StoredBody} :
          hit' = [hit EXCEPT ![c] = check_cache(cache, get_request_hash(request_json(body)))]
    /\ UNCHANGED <<mergeVars, db_error, finished, req_hash, rq, pc, gen, upstream, consumed, sent,
                   raised, returned,
                   sharedVars>>

NextStore == \E c \in Callers : StoreWrite(c) \/ StoreRead(c)

SpecStore == InitStore /\ [][NextStore]_vars

(***************************************************************************)
(* SpecDetect: the callers call detect_provider(api_key, model), each once *)
(* and at any time.  The trials of caller 1 end one by one, in any order;  *)
(* those of the other callers end within their gather.  The database file  *)
(* holds no token_provider_cache table, an empty one, or one with a row    *)
(* for a credential.                                                       *)
(***************************************************************************)
StoredProviderRow ==
    [token_hash |-> hash_api_key("sk-good"),
     base_url |-> "https://open.bigmodel.cn/api/paas/v4"]

DetectRequests ==
    [use_cache : {FALSE}, body : {Body("gpt-3.5-turbo", FALSE)}, provider : {<< >>},
     api_key : ApiKeys, after : {{}}]

InitDetect ==
    /\ IdleMerge
    /\ rq \in [Callers -> DetectRequests]
    /\ pc = [r \in Callers |-> "detect_idle"]
    /\ gen = [r \in Callers |-> stream_response_locals(NoRequest.body.model)]
    /\ upstream = [r \in Callers |-> << >>]
    /\ consumed = [r \in Callers |-> << >>]
    /\ sent = [r \in Callers |-> << >>]
    /\ raised = [r \in Callers |-> "None"]
    /\ hit = [r \in Callers |-> NoHit]
    /\ returned = [r \in Callers |-> NotReturned]
    /\ finished = [r \in Callers |-> << >>]
    /\ req_hash = [r \in Callers |-> EmptyHash]
    /\ db_error = [r \in Callers |-> "None"]
    /\ cache = {}
    /\ wrote = [r \in Callers |-> 0]
    /\ upstream_calls = [r \in Callers |-> NoCalls]
    /\ token_provider_cache \in {NoTable, Table({}), Table({StoredProviderRow})}

\* "provider = await detect_provider(api_key, chat_request.model)": the call begins
DetectCall(r) ==
    /\ pc[r] = "detect_idle"
    /\ rq' = [rq EXCEPT ![r].after = { q \in Callers : pc[q] \in {"lookup", "failed"} }]
    /\ pc' = [pc EXCEPT ![r] = "detect"]
    /\ UNCHANGED <<mergeVars, db_error, finished, req_hash, gen, upstream, consumed, sent,
                   raised, hit,
                   returned,
                   sharedVars>>

NextDetect ==
    \/ \E r \in Callers :
          \/ DetectCall(r)
          \/ DetectProvider(r)
          \/ DetectGather(r)
    \/ TrialFinish(1)

SpecDetect == InitDetect /\ [][NextDetect]_vars

(***************************************************************************)
(* SpecHash: callers 1 and 2 apply get_request_hash to two bodies of a     *)
(* corpus of dicts with up to two keys, in either order, whose values are  *)
(* strings, lists and nested dicts with their own key order.               *)
(***************************************************************************)
\* the dicts over some of `keys`, in every order, with values from `values`
DictsOver(keys, values) ==
    { JDict(items) :
        items \in { s \in UNION { [1..n -> [k : keys, v : values]] :
                                   n \in 0..Cardinality(keys) } :
                      \A i, j \in DOMAIN s : i # j => s[i].k # s[j].k } }

HashLeaves == {JStr("x"), JStr("y")}
HashLists == {JList(<< JStr("x"), JStr("y") >>), JList(<< JStr("y"), JStr("x") >>)}
HashInner == { d \in DictsOver({"thinking", "type"}, HashLeaves) : Len(d.dict) # 1 }
HashCorpus == DictsOver({"model", "extra_body"}, {JStr("x")} \cup HashLists \cup HashInner)

InitHash ==
    /\ IdleMerge
    /\ \E body1, body2 \in HashCorpus :
          rq = [r \in Callers |-> [json |-> IF r = 1 THEN body1
                                            ELSE IF r = 2 THEN body2 ELSE JDict(<< >>)]]
    /\ pc = [r \in Callers |-> "hash_idle"]
    /\ gen = [r \in Callers |-> stream_response_locals(NoRequest.body.model)]
    /\ upstream = [r \in Callers |-> << >>]
    /\ consumed = [r \in Callers |-> << >>]
    /\ sent = [r \in Callers |-> << >>]
    /\ raised = [r \in Callers |-> "None"]
    /\ hit = [r \in Callers |-> NoHit]
    /\ returned = [r \in Callers |-> NotReturned]
    /\ finished = [r \in Callers |-> << >>]
    /\ req_hash = [r \in Callers |-> EmptyHash]
    /\ db_error = [r \in Callers |-> "None"]
    /\ IdleShared

\* request_hash = get_request_hash(body)
HashRequest(r) ==
    /\ pc[r] = "hash_idle"
    /\ req_hash' = [req_hash EXCEPT ![r] = get_request_hash(rq[r].json)]
    /\ pc' = [pc EXCEPT ![r] = "hashed"]
    /\ UNCHANGED <<mergeVars, db_error, finished, rq, gen, upstream, consumed, sent, raised, hit,
                   returned, sharedVars>>

NextHash == \E r \in Callers : HashRequest(r)

SpecHash == InitHash /\ [][NextHash]_vars

(***************************************************************************)
(* Spec: the callers run process_chat_request concurrently on one event    *)
(* loop, each step being the code between two awaits.  The database file   *)
(* outlives the process: it may or may not hold the token_provider_cache   *)
(* table, which init_db does not create.                                   *)
(***************************************************************************)
Bodies == {Body("gpt-3.5-turbo", FALSE), Body("gpt-3.5-turbo", TRUE), Body(Glm46, TRUE),
           [model |-> Glm46, messages |-> << "hi" >>]}

\* provider: the {provider} path parameter, or <<>> for the routes without one
Requests ==
    [use_cache : BOOLEAN, body : Bodies, provider : {<< >>, << "deepseek" >>},
     api_key : ApiKeys, after : {{}}]

Init ==
    /\ IdleMerge
    /\ rq \in [Callers -> Requests]
    /\ pc = [r \in Callers |-> "start"]
    /\ gen = [r \in Callers |-> stream_response_locals(rq[r].body.model)]
    /\ upstream = [r \in Callers |-> LiveScript]
    /\ consumed = [r \in Callers |-> << >>]
    /\ sent = [r \in Callers |-> << >>]
    /\ raised = [r \in Callers |-> "None"]
    /\ hit = [r \in Callers |-> NoHit]
    /\ returned = [r \in Callers |-> NotReturned]
    /\ finished = [r \in Callers |-> << >>]
    /\ req_hash = [r \in Callers |-> EmptyHash]
    /\ db_error = [r \in Callers |-> "None"]
    /\ cache = {}
    /\ wrote = [r \in Callers |-> 0]
    /\ upstream_calls = [r \in Callers |-> NoCalls]
    /\ token_provider_cache \in {NoTable, Table({})}

Next ==
    \E r \in Callers :
        \/ ProcessStart(r)
        \/ DetectProvider(r)
        \/ DetectGather(r)
        \/ Lookup(r)
        \/ CompletionCall(r)
        \/ CompletionFail(r)
        \/ CompletionReturn(r)
        \/ StreamCreate(r)
        \/ StreamFetch(r)
        \/ StreamEnd(r)
        \/ StreamFail(r)
        \/ StreamProcess(r)
        \/ StreamResume(r)
        \/ StreamAfterLoop(r)
        \/ StreamDone(r)
        \/ StreamPersist(r)
        \/ ClientDisconnect(r)

Spec == Init /\ [][Next]_vars

(***************************************************************************)
(* C1.  Round trip: for every non-empty sequence E of raw upstream events, *)
(* replaying merge_chunks(E) through stream_cache_response yields, before  *)
(* the [DONE] frame, exactly Len(E) events, in the same order, each with   *)
(* the envelope (id, created, model) and the delta of the corresponding    *)
(* event of E.  Stated on the finished run: the merge and the replay have  *)
(* ended (normally or by raising).                                         *)
(***************************************************************************)
EnvelopeAndDelta(ev) ==
    [id |-> ev.id, created |-> ev.created, model |-> ev.model,
     delta |-> IF ev.choices = << >> THEN << >> ELSE << ev.choices[1].delta >>]

MergeReplayEnded == mpc \in {"merge_raised", "replay_raised", "replay_done"}

C1_RoundTrip ==
    (chunks # << >> /\ MergeReplayEnded) =>
        /\ mpc = "replay_done"
        /\ Len(replayed) = Len(chunks) + 1
        /\ \A i \in 1..Len(chunks) :
              /\ replayed[i] # DONE
              /\ EnvelopeAndDelta(replayed[i].data) = EnvelopeAndDelta(chunks[i])

(***************************************************************************)
(* Claims about stream_response, checked under SpecStream.                 *)
(***************************************************************************)
Last(seq) == seq[Len(seq)]
DoneSent(r) == sent[r] # << >> /\ Last(sent[r]) = DONE
\* the frames before [DONE]
EventFrames(r) == SelectSeq(sent[r], LAMBDA f : f # DONE)

(***************************************************************************)
(* C4.  On a streaming cache miss the cache write of the request happens   *)
(* only after the [DONE] frame has been forwarded to the caller: whenever  *)
(* a caller's stream_response has written, or the table holds a row, the   *)
(* last frame that caller was sent is [DONE].                              *)
(***************************************************************************)
C4_WriteOnlyAfterDone ==
    /\ \A r \in Callers : wrote[r] > 0 => DoneSent(r)
    /\ cache # {} => \E r \in Callers : wrote[r] > 0 /\ DoneSent(r)

C4_Witness ==
    /\ rq[1].use_cache
    /\ pc[1] = "finished"
    /\ wrote[1] = 1
    /\ cache # {}
    /\ Len(sent[1]) > 1
    /\ DoneSent(1)

(***************************************************************************)
(* C5.  When the upstream fails in the middle of a streaming call, the     *)
(* caller is sent a terminal end-of-stream marker and no cache entry is    *)
(* written for the request.                                                *)
(***************************************************************************)
C5_TerminalMarkerOnUpstreamFailure ==
    \A r \in Callers :
        raised[r] = "UpstreamStreamError" => (DoneSent(r) /\ wrote[r] = 0)

(***************************************************************************)
(* C6.  An upstream event of an unrecognized shape is, at any position of  *)
(* the stream, forwarded verbatim and stored verbatim as its own run; it   *)
(* never aborts the forwarding or the capture: the generator never ends    *)
(* on it, and once its stream has ended normally the event is among the    *)
(* frames sent and, on a cache route, among the stored chunks.             *)
(***************************************************************************)
C6_UnrecognizedEventForwarded ==
    \A r \in Callers :
        (\E i \in 1..Len(consumed[r]) :
            consumed[r][i] = UnrecognizedEvent /\ (i < Len(consumed[r]) \/ pc[r] # "process"))
        => /\ raised[r] # "ValidationError"
           /\ DoneSent(r) => \E j \in 1..Len(sent[r]) : sent[r][j] = Frame(UnrecognizedEvent)
           /\ wrote[r] > 0 =>
                 \E row \in cache : \E k \in 1..Len(row.value) : row.value[k] = UnrecognizedEvent

(***************************************************************************)
(* C7.  On a live stream every upstream event is forwarded exactly once,   *)
(* in arrival order, with content equal to the upstream event, and before  *)
(* the next upstream event is read, for every model: the frames sent are   *)
(* the events read, except for the event that is being processed.          *)
(***************************************************************************)
C7_ForwardedUnmodifiedUnbuffered ==
    \A r \in Callers :
        pc[r] \in {"fetch", "process", "yielded", "afterloop", "last_yielded",
                   "done_yielded", "finished"}
        => LET n == IF pc[r] = "process" THEN Len(consumed[r]) - 1 ELSE Len(consumed[r])
           IN /\ Len(EventFrames(r)) = n
              /\ \A i \in 1..n : EventFrames(r)[i] = Frame(consumed[r][i])

(***************************************************************************)
(* C8.  The frames sent on the streaming miss that captured an upstream    *)
(* sequence and the frames sent on a later cache hit for the same key are  *)
(* equal in count, order and content, for every model.                     *)
(***************************************************************************)
C8_ReplayEqualsLive ==
    \A r \in Callers \ {1} :
        (pc[r] \in {"replay_done", "replay_raised"} /\ pc[1] = "finished") => sent[r] = sent[1]

(***************************************************************************)
(* Claims on process_chat_request and on the cache table.                  *)
(***************************************************************************)
\* failures that come from outside process_chat_request's cache path: the upstream, the
\* credential, the database file
ExternalFailures ==
    {"UpstreamCreateError", "UpstreamStreamError", "ValueError", "OperationalError"}

SameResult(a, b) == a.kind = b.kind /\ a.value = b.value

\* C2.  In every request handled with caching enabled, nothing has been sent to any
\* upstream endpoint (trial requests of the endpoint resolution included) as long as the
\* cache lookup has not been performed.
C2_LookupBeforeAnyUpstreamRequest ==
    \A r \in Callers :
        (rq[r].use_cache /\ pc[r] \in {"start", "detect", "detect_wait"})
            => upstream_calls[r] = NoCalls

\* C3.  A non-streaming request on a cache route whose upstream, credential and database
\* are in order completes successfully (the test's first request is answered 200), and
\* once one has, every later request on a cache route with the same body succeeds, returns
\* the same completion object and makes no upstream completion call.
C3_RepeatedRequestServedFromCache ==
    \A r \in Callers :
        (/\ rq[r].use_cache
         /\ pc[r] \in {"returned", "failed"}
         /\ ~ChatCompletionRequest(rq[r].body).stream)
        => /\ raised[r] \in ExternalFailures \cup {"None"}
           /\ \A q \in rq[r].after :
                 (rq[q].use_cache /\ rq[q].body = rq[r].body /\ pc[q] = "returned")
                 => /\ pc[r] = "returned"
                    /\ SameResult(returned[r], returned[q])
                    /\ upstream_calls[r].completions = 0

\* C9.  Under any interleaving of cache_response calls the cache holds at most one entry
\* per key; right after a cache_response the entry of its key is exactly the key, prompt,
\* value and is_stream flag of that call; and what a check_cache returned is what it
\* returns on one whole written entry (or a miss), never a mix of two entries.  The entries
\* of the other keys are left as they are.
StoreRow(body, e) ==
    [hashed_key |-> get_request_hash(request_json(body)), key |-> body,
     value |-> e.response, is_stream |-> e.is_stream]

AtMostOneEntryPerKey ==
    \A row1, row2 \in cache : row1.hashed_key = row2.hashed_key => row1 = row2

ReadsSeeWholeEntries ==
    \A c \in Callers :
        \/ hit[c].kind \in {"NotCalled", "None"}
        \/ \E body \in StoreBodies, e \in StoreEntries :
              SameResult(hit[c], check_cache({StoreRow(body, e)},
                                             get_request_hash(request_json(body))))
        \/ SameResult(hit[c], check_cache({StoredRow}, get_request_hash(request_json(StoredBody))))

WriteReplacesEntry ==
    \A c \in Callers :
        wrote'[c] = wrote[c] + 1
        => /\ select_row(cache', get_request_hash(request_json(rq'[c].body)))
                = {StoreRow(rq'[c].body, rq'[c])}
           /\ cache' \ select_row(cache', get_request_hash(request_json(rq'[c].body)))
                = cache \ select_row(cache, get_request_hash(request_json(rq'[c].body)))

\* C9: at most one entry per key, a write replaces the whole entry, a read sees one whole
\* entry.
C9_AtomicReplace ==
    [](AtMostOneEntryPerKey /\ ReadsSeeWholeEntries) /\ [][WriteReplacesEntry]_vars

\* caller 1 wrote a streamed entry, caller 2 then wrote a completion under the same key and
\* read it back: one entry, the completion
C9_Witness ==
    /\ wrote = [c \in Callers |-> IF c \in {1, 2} THEN 1 ELSE 0]
    /\ rq[1].use_cache /\ rq[2].use_cache
    /\ rq[1].is_stream /\ ~rq[2].is_stream
    /\ rq[1].body = rq[2].body
    /\ hit[2].kind = "ChatCompletionResponse"
    /\ cache = {StoredRow, StoreRow(rq[2].body, rq[2])}

\* C10.  Two cache-route requests with the same body, each started before the other ended
\* (so before any entry exists), and neither stopped by an outside failure or a client
\* that went away: each has made its own upstream completion call and its own cache write,
\* and one entry remains for the key.
C10_NoSingleFlightJoin ==
    \A r, q \in Callers :
        (/\ r # q
         /\ rq[r].use_cache /\ rq[q].use_cache
         /\ pc[r] \in Ended /\ pc[q] \in Ended
         /\ rq[r].body = rq[q].body
         /\ r \notin rq[q].after /\ q \notin rq[r].after
         /\ raised[r] \notin ExternalFailures /\ raised[q] \notin ExternalFailures
         /\ pc[r] # "closed" /\ pc[q] # "closed")
        => /\ upstream_calls[r].completions = 1 /\ upstream_calls[q].completions = 1
           /\ wrote[r] = 1 /\ wrote[q] = 1
           /\ Cardinality(select_row(cache, get_request_hash(request_json(rq[r].body)))) = 1

(***************************************************************************)
(* Claims on detect_provider, checked under SpecDetect.                    *)
(***************************************************************************)
\* the accepting candidate that is earliest in the priority list, << >> when none accepts
EarliestAccepting(api_key) ==
    LET ok == { i \in 1..Len(get_all_base_urls) : Accepts(api_key, get_all_base_urls[i]) } IN
    IF ok = {} THEN << >>
    ELSE << get_all_base_urls[CHOOSE i \in ok : \A j \in ok : i <= j] >>

Position(seq, base_url) == CHOOSE j \in 1..Len(seq) : seq[j].base_url = base_url

\* C11.  On a resolver miss (the call has sent its trial requests), detect_provider returns
\* the accepting candidate that is earliest in the priority list, extras first, whatever
\* the order in which the trials ended.
C11_PriorityNotCompletionOrder ==
    \A r \in Callers :
        (pc[r] = "lookup" /\ upstream_calls[r].trials > 0)
            => /\ rq[r].provider = EarliestAccepting(rq[r].api_key)
               /\ get_all_base_urls[1] = AdditionalBaseUrls[1]

\* the extra and two built-ins fail, deepseek and bigmodel accept, bigmodel's trial ended
\* first of all and deepseek's last: deepseek is returned
C11_Witness ==
    /\ pc[1] = "lookup"
    /\ Len(finished[1]) = Len(get_all_base_urls)
    /\ Position(finished[1], "https://open.bigmodel.cn/api/paas/v4") = 1
    /\ Position(finished[1], "https://api.deepseek.com/v1") = Len(get_all_base_urls)
    /\ rq[1].provider = << "https://api.deepseek.com/v1" >>

\* C12.  When every candidate rejects the credential, detect_provider raises ValueError
\* whose message lists every candidate, all of which were tried, and the step that raises
\* leaves the credential table as it was, with no row for the credential.
NoRowFor(api_key) ==
    \A row \in token_provider_cache.rows : row.token_hash # hash_api_key(api_key)

AllRejectedError ==
    \A r \in Callers :
        raised[r] = "ValueError"
            => /\ EarliestAccepting(rq[r].api_key) = << >>
               /\ returned[r].value.accepted_urls = get_all_base_urls
               /\ upstream_calls[r].trials = Len(get_all_base_urls)
               /\ NoRowFor(rq[r].api_key)

FailureLeavesMapping ==
    \A r \in Callers :
        (raised'[r] = "ValueError" /\ raised[r] # "ValueError")
            => token_provider_cache' = token_provider_cache

MemoizedBeforeReturn ==
    \A r \in Callers :
        (pc[r] = "detect_wait" /\ pc'[r] = "lookup")
            => [token_hash |-> hash_api_key(rq'[r].api_key), base_url |-> rq'[r].provider[1]]
                   \in token_provider_cache'.rows

LaterCallsHit ==
    \A r, q \in Callers :
        (/\ q \in rq[r].after
         /\ pc[q] = "lookup"
         /\ rq[q].api_key = rq[r].api_key
         /\ pc[r] \in {"lookup", "failed"})
        => /\ pc[r] = "lookup"
           /\ rq[r].provider = rq[q].provider
           /\ upstream_calls[r].trials = 0

C13_MemoizedThenHit == []LaterCallsHit /\ [][MemoizedBeforeReturn]_vars

\* C13: caller 1 detected its endpoint with trials; caller 2 called afterwards with the same
\* credential and got the same endpoint without any trial
C13_Witness ==
    /\ pc[1] = "lookup" /\ upstream_calls[1].trials > 0
    /\ 1 \in rq[2].after
    /\ rq[2].api_key = rq[1].api_key
    /\ pc[2] = "lookup" /\ upstream_calls[2].trials = 0
    /\ rq[2].provider = rq[1].provider

(***************************************************************************)
(* Claims on what is persisted, checked under Spec.                        *)
(***************************************************************************)
\* the rows the two call sites of cache_response build for caller r's request
CallSiteRows(r) ==
    cache_response({}, get_request_hash(request_json(rq[r].body)), rq[r].body,
                   json_dumps_object(CompletionObject), FALSE)
    \cup cache_response({}, get_request_hash(request_json(rq[r].body)),
                        ChatCompletionRequest(rq[r].body),
                        json_dumps_array(merge_chunks(LiveScript).value), TRUE)

\* C14.  In every reachable state no persisted field of the cache table (nor of a row a
\* caller's request would put there) or of the credential table equals a caller's raw
\* credential, and the credential table is keyed by the sha256 digest of the credential.
C14_NoRawCredentialPersisted ==
    \A r \in Callers :
        /\ \A row \in token_provider_cache.rows :
              /\ row.token_hash # Text(rq[r].api_key)
              /\ Text(row.base_url) # Text(rq[r].api_key)
              /\ DOMAIN row.token_hash = {"sha256"}
        /\ \A row \in cache \cup CallSiteRows(r) :
              /\ row.hashed_key # Text(rq[r].api_key)
              /\ row.key # Text(rq[r].api_key)
              /\ row.value # Text(rq[r].api_key)

\* C14: caller 1's detection has stored the row of its credential
C14_Witness ==
    /\ pc[1] \in Ended
    /\ upstream_calls[1].trials > 0
    /\ \E row \in token_provider_cache.rows : row.token_hash = [sha256 |-> rq[1].api_key]

(***************************************************************************)
(* Claims on get_request_hash, checked under SpecHash.                     *)
(***************************************************************************)
\* the content of a JSON value whatever the order of the keys: every dict, at any depth,
\* as the set of its items
RECURSIVE Canonical(_)
Canonical(value) ==
    IF "dict" \in DOMAIN value
    THEN [dict |-> { Item(value.dict[i].k, Canonical(value.dict[i].v)) :
                       i \in 1..Len(value.dict) }]
    ELSE IF "list" \in DOMAIN value
    THEN [list |-> [i \in 1..Len(value.list) |-> Canonical(value.list[i])]]
    ELSE value

TopKeys(body) == [i \in 1..Len(body.dict) |-> body.dict[i].k]

\* C15.  get_request_hash gives two bodies the same key exactly when they have the same
\* canonical content: the same key when they differ only in the order of keys, at any
\* depth, and different keys when a value or the structure differs.
C15_SameKeyIffSameContent ==
    \A r, q \in Callers :
        (pc[r] = "hashed" /\ pc[q] = "hashed")
            => ((req_hash[r] = req_hash[q])
                    <=> (Canonical(rq[r].json) = Canonical(rq[q].json)))

\* C15: two bodies with the same top-level key order that differ in the key order of a
\* nested dict have been given one key
C15_Witness ==
    /\ pc[1] = "hashed" /\ pc[2] = "hashed"
    /\ rq[1].json # rq[2].json
    /\ TopKeys(rq[1].json) = TopKeys(rq[2].json)
    /\ req_hash[1] = req_hash[2]

(***************************************************************************)
(* C16.  Every stream response that runs to completion, live (on a cache   *)
(* route or not) or replayed from the cache, is a sequence of data frames  *)
(* followed by exactly one [DONE] frame, which is the last frame sent: a   *)
(* [DONE] frame is never followed by another frame, every other frame is a *)
(* data frame, and a generator that has returned has sent [DONE].          *)
(***************************************************************************)
StreamCompleted(r) == pc[r] \in {"finished", "replay_done"}

C16_CompletedStreamEndsWithOneDone ==
    \A r \in Callers :
        /\ \A i \in 1..Len(sent[r]) :
              IF sent[r][i] = DONE THEN i = Len(sent[r])
              ELSE DOMAIN sent[r][i] = {"data"}
        /\ StreamCompleted(r) => DoneSent(r)

C16_Witness ==
    /\ pc[1] = "finished"
    /\ pc[2] = "replay_done"
    /\ Len(sent[1]) > 2 /\ DoneSent(1)
    /\ Len(sent[2]) > 2 /\ DoneSent(2)

(***************************************************************************)
(* C17.  On a non-streaming cache miss the cache write happens after the   *)
(* completion object has been obtained from the upstream and before the    *)
(* response is returned; when the upstream call fails, the request fails   *)
(* and no entry is written.  On the ended request: a non-streaming request *)
(* on a cache route that was not served from the cache and was not stopped *)
(* by a failure from outside has made its upstream call, has written the   *)
(* entry of its key and has returned; a request has written only once it   *)
(* has the upstream's answer; one whose upstream call failed has failed    *)
(* and has written nothing.                                                *)
(***************************************************************************)
NonStreamingOnCacheRoute(r) ==
    rq[r].use_cache /\ ~ChatCompletionRequest(rq[r].body).stream

C17_WriteAfterResponseBeforeReturn ==
    \A r \in Callers :
        NonStreamingOnCacheRoute(r) =>
            /\ wrote[r] > 0 => (pc[r] = "returned" /\ upstream_calls[r].completions = 1)
            /\ raised[r] = "UpstreamCreateError" => (pc[r] = "failed" /\ wrote[r] = 0)
            /\ (/\ pc[r] \in {"returned", "failed"}
                /\ raised[r] \notin ExternalFailures
                /\ hit[r].kind \notin {"StreamingResponse", "ChatCompletionResponse"})
               => /\ pc[r] = "returned"
                  /\ upstream_calls[r].completions = 1
                  /\ wrote[r] = 1
                  /\ select_row(cache, get_request_hash(request_json(rq[r].body))) # {}

(***************************************************************************)
(* C18.  When the store cannot be read, check_cache does not return the    *)
(* cache-miss result (None): the failure is reported as an error to its    *)
(* caller, and the request does not go on as if the key were absent.  For  *)
(* every caller whose check_cache met a database error: what the call gave *)
(* back is that error, the caller has failed with it and has not taken the *)
(* way of a miss.                                                          *)
(***************************************************************************)
C18_StoreFailureIsNotAMiss ==
    \A r \in Callers :
        db_error[r] # "None" =>
            /\ hit[r].kind = db_error[r]
            /\ raised[r] = db_error[r]
            /\ pc[r] = "failed"
            /\ sent[r] = << >>
            /\ upstream_calls[r] = NoCalls

\* caller 1 has written the entry of the key and caller 2's read of it failed
C18_Witness ==
    /\ wrote[1] = 1
    /\ db_error[2] = "OperationalError"
    /\ hit[2].kind = "OperationalError"
    /\ pc[2] = "failed"

(***************************************************************************)
(* C19.  merge_chunks partitions any non-empty event sequence into runs:   *)
(* an event with no usage and no finish marker joins the current run's     *)
(* delta list; an event with usage or a non-null finish marker closes the  *)
(* current run as its terminal; the event that follows a closing event     *)
(* starts a new run with its own envelope and delta list.  So n delta-only *)
(* events followed by one finish event give one run with n deltas and a    *)
(* terminal, and a stream that continues with delta-only events after a    *)
(* closing event is merged without error.  A run is written [envelope,     *)
(* deltas, terminal]; in the merged list a run is a chunk with a           *)
(* delta_list, followed by its terminal chunk when it has one.             *)
(***************************************************************************)
Closing(ev) == HasUsage(ev) \/ (ev.choices # << >> /\ HasFinish(ev.choices[1]))

EnvelopeOf(ev) == [id |-> ev.id, created |-> ev.created, model |-> ev.model]

\* the run list after one more event, by the rule of the claim
PartitionStep(runs, ev) ==
    LET open == runs # << >> /\ Last(runs).terminal = << >> IN
    IF Closing(ev)
    THEN IF open THEN [runs EXCEPT ![Len(runs)].terminal = << ev >>]
         ELSE Append(runs, [envelope |-> EnvelopeOf(ev), deltas |-> << >>,
                            terminal |-> << ev >>])
    ELSE IF open THEN [runs EXCEPT ![Len(runs)].deltas = Append(@, ev.choices[1].delta)]
         ELSE Append(runs, [envelope |-> EnvelopeOf(ev),
                            deltas |-> << ev.choices[1].delta >>, terminal |-> << >>])

RECURSIVE PartitionRuns(_, _)
PartitionRuns(runs, events) ==
    IF events = << >> THEN runs
    ELSE PartitionRuns(PartitionStep(runs, Head(events)), Tail(events))

\* the run list a merged list stands for
HasDeltaList(chunk) ==
    /\ "choices" \in DOMAIN chunk
    /\ chunk.choices # << >>
    /\ "delta_list" \in DOMAIN chunk.choices[1]

StoredStep(runs, chunk) ==
    IF HasDeltaList(chunk)
    THEN Append(runs, [envelope |-> EnvelopeOf(chunk),
                       deltas |-> chunk.choices[1].delta_list, terminal |-> << >>])
    ELSE IF runs # << >> /\ Last(runs).terminal = << >>
    THEN [runs EXCEPT ![Len(runs)].terminal = << chunk >>]
    ELSE Append(runs, [envelope |-> EnvelopeOf(chunk), deltas |-> << >>,
                       terminal |-> << chunk >>])

RECURSIVE StoredRuns(_, _)
StoredRuns(runs, merged_chunks) ==
    IF merged_chunks = << >> THEN runs
    ELSE StoredRuns(StoredStep(runs, Head(merged_chunks)), Tail(merged_chunks))

\* Stated on the sequences that begin with a delta-only event, where the first run is
\* opened by an event that joins it.
C19_MergePartitionsIntoRuns ==
    (chunks # << >> /\ ~Closing(chunks[1]) /\ mpc # "input") =>
        /\ merged.raised = "None"
        /\ StoredRuns(<< >>, merged.value) = PartitionRuns(<< >>, chunks)

(***************************************************************************)
(* C20.  For any stored run list, stream_cache_response emits the runs in  *)
(* stored order and, within a run, one event per delta in stored order,    *)
(* each with the envelope (id, created, model) of its own run and that     *)
(* delta as its payload, followed by the run's terminal event when the run *)
(* has one.  Stated on the replay that has ended (normally or by raising)  *)
(* of every list merge_chunks stores for a sequence that begins with a     *)
(* delta-only event: the events sent are the events of the stored runs.    *)
(***************************************************************************)
RunEvents(run) ==
    [i \in 1..Len(run.deltas) |-> [envelope |-> run.envelope, delta |-> run.deltas[i]]]
    \o [i \in 1..Len(run.terminal) |-> [terminal |-> run.terminal[i]]]

RECURSIVE RunListEvents(_)
RunListEvents(runs) ==
    IF runs = << >> THEN << >>
    ELSE RunEvents(Head(runs)) \o RunListEvents(Tail(runs))

\* an event sent, as the terminal or as the delta event it is
SentEvent(frame) ==
    IF Closing(frame.data) THEN [terminal |-> frame.data]
    ELSE [envelope |-> EnvelopeOf(frame.data), delta |-> frame.data.choices[1].delta]

ReplayedEvents ==
    LET frames == SelectSeq(replayed, LAMBDA f : f # DONE) IN
    [i \in 1..Len(frames) |-> SentEvent(frames[i])]

C20_ReplayEmitsStoredRuns ==
    (mpc \in {"replay_done", "replay_raised"} /\ ~Closing(chunks[1])) =>
        ReplayedEvents = RunListEvents(StoredRuns(<< >>, merged.value))

(***************************************************************************)
(* C21.  Every streaming cache miss whose upstream stream ends without     *)
(* error and whose caller consumes the response to its end results in a    *)
(* cache entry written under the request's key, for every upstream         *)
(* sequence (the empty one, one whose first event has an empty choices     *)
(* list, one with delta-only events after a closing event).  On the ended  *)
(* generator of a cache route that has sent [DONE]: it has written, and    *)
(* the table holds a streamed row under the key of the request.            *)
(***************************************************************************)
StreamedToTheEnd(r) ==
    /\ rq[r].use_cache
    /\ pc[r] \in {"finished", "gen_raised"}
    /\ upstream[r] = << >>
    /\ DoneSent(r)

C21_CompletedStreamIsCached ==
    \A r \in Callers :
        (r = 1 /\ StreamedToTheEnd(r)) =>
            /\ wrote[r] = 1
            /\ \E row \in select_row(cache, get_request_hash(request_json(rq[r].body))) :
                  row.is_stream

(***************************************************************************)
(* C22.  Every non-streaming entry written to the cache is one check_cache *)
(* can decode and return on a later hit: the table never holds a           *)
(* non-streaming row on which check_cache fails, and no check_cache call   *)
(* has failed on the row of its key.                                       *)
(***************************************************************************)
C22_StoredCompletionsDecode ==
    /\ \A row \in cache :
          ~row.is_stream =>
              check_cache({row}, row.hashed_key).kind = "ChatCompletionResponse"
    /\ \A c \in Callers : hit[c].kind # "ValidationError"

(***************************************************************************)
(* C23.  If the caller stops consuming a live cache-route stream before    *)
(* the generator is resumed past the [DONE] frame, no cache entry is       *)
(* written for the request, and a partial capture is never persisted: a    *)
(* closed generator has written nothing, and a row of the table is the     *)
(* merge of all the events of an upstream stream that was read to its end  *)
(* by a generator that has finished.                                       *)
(***************************************************************************)
C23_NoWriteOnDisconnect ==
    /\ \A r \in Callers : pc[r] = "closed" => wrote[r] = 0
    /\ (\E r \in Callers : pc[r] = "closed" /\ r = 1) => cache = {}
    /\ \A row \in cache :
          /\ pc[1] = "finished"
          /\ upstream[1] = << >>
          /\ row.value = json_dumps_array(merge_chunks(consumed[1]).value)

\* the caller went away after it was sent events and [DONE], before the generator was
\* resumed from the yield of [DONE]
C23_Witness ==
    /\ rq[1].use_cache
    /\ pc[1] = "closed"
    /\ Len(sent[1]) > 1 /\ DoneSent(1)
    /\ merge_chunks(gen[1].response_chunks).raised = "None"
    /\ cache = {}

(***************************************************************************)
(* C24.  The kind of a cache hit always matches the request: a request     *)
(* with stream = true never receives a stored single completion object,    *)
(* and a request with stream false or absent never receives a replayed     *)
(* event stream; the key covers the stream field, and every row is stored  *)
(* with is_stream equal to the stream flag of the request it was written   *)
(* for.                                                                    *)
(***************************************************************************)
RequestStreams(body) == ChatCompletionRequest(body).stream

ExplicitProvider(r) ==
    rq[r].provider # << >> /\ rq[r].provider[1] \notin Range(get_all_base_urls)

ServedFromCache(r) == hit[r].kind \in {"StreamingResponse", "ChatCompletionResponse"}

C25_HitIndependentOfCredential ==
    \A r, q \in Callers :
        (/\ q \in rq[r].after
         /\ rq[r].use_cache /\ rq[q].use_cache
         /\ rq[r].body = rq[q].body
         /\ ExplicitProvider(r) /\ ExplicitProvider(q)
         /\ rq[r].api_key # rq[q].api_key
         /\ pc[r] \in Ended \ {"closed"} /\ pc[q] \in Ended \ {"closed"}
         /\ raised[r] \notin ExternalFailures /\ raised[q] \notin ExternalFailures)
        => /\ req_hash[r] = req_hash[q]
           /\ ServedFromCache(r)
           /\ upstream_calls[r] = NoCalls
           /\ returned[r].kind = "ChatCompletionResponse"
                 => SameResult(returned[r], returned[q])

(***************************************************************************)
(* C26: in a glm-4.6 live stream the look-behind forwards every upstream   *)
(* event exactly once and in order (frame i is event i, and a stream that  *)
(* reaches [DONE] has forwarded them all), and every maximal run of        *)
(* consecutive events carrying reasoning_content has its reasoning moved   *)
(* into content, with exactly one "<think>" at the head of the reasoning   *)
(* of the run's first event and exactly one "</think>" at its end in the   *)
(* run's last event, also when the run ends the stream, and no tag         *)
(* anywhere else: the tags are balanced and never nested.                  *)
(***************************************************************************)
\* the events read so far, as StreamChunk parses them
ParsedEvents(r) == [i \in 1..Len(consumed[r]) |-> StreamChunk_from_dict(consumed[r][i])]

\* event i belongs to a run of reasoning events; it is the run's first, its last
InRun(events, i) == any_has_reasoning(events[i])
FirstOfRun(events, i) == InRun(events, i) /\ (i = 1 \/ ~InRun(events, i - 1))
LastOfRun(events, i) == InRun(events, i) /\ (i = Len(events) \/ ~InRun(events, i + 1))

\* a delta with its reasoning moved into content, between the tags asked for
Moved(delta, opening, closing) ==
    LET content == IF "content" \in DOMAIN delta THEN delta.content ELSE << >>
        moved == (IF opening THEN << "<think>" >> ELSE << >>)
                 \o delta.reasoning_content
                 \o (IF closing THEN << "</think>" >> ELSE << >>)
                 \o content
    IN [k \in (DOMAIN delta \ {"reasoning_content"}) \cup {"content"} |->
            IF k = "content" THEN moved ELSE delta[k]]

\* what the claim has event i forwarded as
ForwardedAs(events, i) ==
    [events[i] EXCEPT !.choices =
        [j \in 1..Len(events[i].choices) |->
            IF has_reasoning(events[i].choices[j].delta)
            THEN [events[i].choices[j] EXCEPT !.delta =
                    Moved(@, FirstOfRun(events, i), LastOfRun(events, i))]
            ELSE events[i].choices[j]]]

DataFrames(r) == SelectSeq(sent[r], LAMBDA f : f # DONE)

C26_ThinkTagsPerRun ==
    rq[1].body.model = Glm46 =>
        LET events == ParsedEvents(1)
            frames == DataFrames(1)
        IN /\ Len(frames) <= Len(events)
           /\ DoneSent(1) => Len(frames) = Len(events)
           /\ \A i \in 1..Len(frames) : frames[i] = Frame(ForwardedAs(events, i))

====
